---- MODULE Spec2Model ----
(***************************************************************************)
(* Model of the Fireboom hook server template: startServer (server.ts),    *)
(* the health plugin (health.ts) and the proxy registry (proxy module,     *)
(* src/unnamed/part_000).                                                  *)
(*                                                                         *)
(* JavaScript strings are sequences of one-character strings, so that      *)
(* number formatting is computed and "" is the empty sequence.             *)
(* undefined and null are the empty sequence where a value is optional     *)
(* (an optional value v is <<>> or <<v>>).                                 *)
(***************************************************************************)
EXTENDS Naturals, Sequences, FiniteSets

\* ------------------------------------------------------------------ bounds
MaxArrivals == 2    \* requests accepted over the life of the process
MaxRegistered == 2  \* register calls that succeed over the life of the process

\* a request in flight occupies a slot, from its arrival to its onResponse
Slots == {1, 2}
\* proxy paths, and the names the other categories' entries register
Names == {"orders", "users"}
OtherNames == {"orders"}

\* ------------------------------------------------------- JavaScript values
Undefined == <<>>
Some(v) == <<v>>
IsDefined(o) == o # <<>>

Digits == <<"0", "1", "2", "3", "4", "5", "6", "7", "8", "9">>

\* `${n}` for a non-negative integer n: its decimal digits
RECURSIVE NumberToString(_)
NumberToString(n) ==
  IF n < 10 THEN <<Digits[n + 1]>>
  ELSE Append(NumberToString(n \div 10), Digits[(n % 10) + 1])

DigitValue(c) == CHOOSE d \in 0..9 : Digits[d + 1] = c
IsNumeral(s) == Len(s) > 0 /\ \A i \in 1..Len(s) : \E d \in 0..9 : Digits[d + 1] = s[i]

\* the number a decimal numeral denotes
RECURSIVE ParseNumeral(_)
ParseNumeral(s) ==
  IF Len(s) = 0 THEN 0
  ELSE ParseNumeral(SubSeq(s, 1, Len(s) - 1)) * 10 + DigitValue(s[Len(s)])

\* JavaScript truthiness of an optional string: undefined and "" are falsy
Truthy(o) == IsDefined(o) /\ Len(o[1]) > 0

\* values an x-request-id header can carry: "" and "1" (which collides with a generated id)
HeaderValues == {<<>>, <<"1">>}
\* req.headers['x-request-id']: undefined or the string
HeaderOptions == {Undefined} \cup {Some(v) : v \in HeaderValues}

\* String.prototype.toString
HeaderToString(v) == v

\* ------------------------------------------------------------------- state
VARIABLES
  pc,                \* position of startServer
  id,                \* server.ts: let id = 0
  preHandlerHook,    \* the preHandler hook of the encapsulated plugin is installed
  fastify,           \* proxy module: let fastify (undefined or the plugin's instance)
  proxyNameList,     \* proxy module: let proxyNameList (undefined or a list)
  customizeNameList, \* customize module's name list
  functionNameList,  \* function module's name list
  routes,            \* routes bound on the transport
  pendingRejection,  \* a promise of registerProxyHandler rejected in the turn of
                     \* the loader loop, and the runtime has not reported it yet
  requests,          \* the requests in flight, by slot
  shutdown,          \* Running, Draining, Closed
  graceInstalled,    \* closeWithGrace has installed its listeners
  log,               \* what the logger was called with
  dropped,           \* number of requests whose handler was still running when
                     \* the process exited
  arrivals,          \* history: number of requests accepted so far
  genLog,            \* history: the ids genReqId generated, in arrival order
  regLog             \* history: per category, the names of the register calls that
                     \* returned normally, in call order

vars == <<pc, id, preHandlerHook, fastify, proxyNameList, customizeNameList,
          functionNameList, routes, pendingRejection, requests, shutdown,
          graceInstalled, log, dropped, arrivals, genLog, regLog>>

startTime == <<"t", "0">>

\* body shapes: req.body, req.body.__wg, .clientRequest, .user (each possibly undefined)
Envelope(cr, user) == [clientRequest |-> cr, user |-> user]
NoBody == Undefined
BodyWithoutEnvelope == Some([wg |-> Undefined])
BodyWith(cr, user) == Some([wg |-> Some(Envelope(cr, user))])

\* the caller request and the identity claim the request in slot s carries
ClientRequestOf(s) == <<"clientRequest", s>>
UserOf(s) == <<"user", s>>
\* req.query of the request in slot s
QueryOf(s) == <<"query", s>>

BodiesOf(s) ==
  { NoBody, BodyWithoutEnvelope,
    BodyWith(Undefined, Undefined),
    BodyWith(Some(ClientRequestOf(s)), Undefined),
    BodyWith(Some(ClientRequestOf(s)), Some(UserOf(s))) }

Categories == {"proxy", "customize", "function"}

HealthRoute == <<"health">>
ProxyRoute(path) == <<"proxy", path>>

\* the methods a route is bound for: health.ts 10 (get), proxy module 18
MethodsOf(route) == IF route = HealthRoute THEN {"GET"} ELSE {"GET", "POST"}

Idle ==
  [stage |-> "idle", route |-> <<>>, method |-> "", query |-> Undefined,
   header |-> Undefined, body |-> NoBody, id |-> <<>>, ctx |-> Undefined, ctxBuilds |-> 0, handlerArgs |-> Undefined,
   status |-> 0, payload |-> Undefined]

Alive == pc # "killed" /\ shutdown # "Closed"

Init ==
  /\ pc = "start"
  /\ id = 0
  /\ preHandlerHook = FALSE
  /\ fastify = Undefined
  /\ proxyNameList = Undefined
  /\ customizeNameList = Undefined
  /\ functionNameList = Undefined
  /\ routes = {}
  /\ pendingRejection = FALSE
  /\ requests = [s \in Slots |-> Idle]
  /\ shutdown = "Running"
  /\ graceInstalled = FALSE
  /\ log = <<>>
  /\ dropped = 0
  /\ arrivals = 0
  /\ genLog = <<>>
  /\ regLog = [k \in Categories |-> <<>>]


startupVars == <<pc, preHandlerHook>>
registryVars == <<fastify, proxyNameList, customizeNameList, functionNameList,
                  routes, regLog, pendingRejection>>
requestVars == <<id, requests, arrivals, genLog>>
shutdownVars == <<shutdown, graceInstalled, log, dropped>>

\* ---------------------------------------------------------------- startup
\* server.ts 19-63: the counter, the instance, the ctx decoration; the health
\* plugin (health.ts 9-10) binds GET /health on the root instance
StartServer ==
  /\ pc = "start"
  /\ Alive
  /\ id' = 0
  /\ routes' = routes \cup {HealthRoute}
  /\ pc' = "preHandler"
  /\ UNCHANGED <<preHandlerHook, fastify, proxyNameList, customizeNameList,
                 functionNameList, regLog, pendingRejection, requests, arrivals,
                 genLog, shutdownVars>>

\* server.ts 65-66: the encapsulated plugin installs the preHandler hook
AddPreHandlerHook ==
  /\ pc = "preHandler"
  /\ Alive
  /\ preHandlerHook' = TRUE
  /\ pc' = "hooks"
  /\ UNCHANGED <<registryVars, requestVars, shutdownVars>>

\* server.ts 86: the hooks plugin (it keeps no name list the health report reads)
RegisterHooksPlugin ==
  /\ pc = "hooks"
  /\ Alive
  /\ pc' = "customize"
  /\ UNCHANGED <<preHandlerHook, registryVars, requestVars, shutdownVars>>

\* server.ts 89: the customize plugin initializes its registry
RegisterCustomizesPlugin ==
  /\ pc = "customize"
  /\ Alive
  /\ customizeNameList' = Some(<<>>)
  /\ pc' = "proxy"
  /\ UNCHANGED <<preHandlerHook, fastify, proxyNameList, functionNameList, routes,
                 regLog, pendingRejection, requestVars, shutdownVars>>

\* server.ts 92, proxy module 34-37: fastify = _fastify; proxyNameList = []
FireboomProxiesPlugin ==
  /\ pc = "proxy"
  /\ Alive
  /\ fastify' = Some("proxies")
  /\ proxyNameList' = Some(<<>>)
  /\ pc' = "function"
  /\ UNCHANGED <<preHandlerHook, customizeNameList, functionNameList, routes,
                 regLog, pendingRejection, requestVars, shutdownVars>>

\* server.ts 95: the function plugin initializes its registry
RegisterFunctionsPlugin ==
  /\ pc = "function"
  /\ Alive
  /\ functionNameList' = Some(<<>>)
  /\ pc' = "glob"
  /\ UNCHANGED <<preHandlerHook, fastify, proxyNameList, customizeNameList, routes,
                 regLog, pendingRejection, requestVars, shutdownVars>>

\* server.ts 99-101: require(entry) throws at the entry's top level; the throw
\* rejects the plugin function, fastify.register (65) and startServer with it,
\* so that 105-121 never run
RequireThrows ==
  /\ pc = "glob"
  /\ Alive
  /\ pc' = "aborted"
  /\ UNCHANGED <<preHandlerHook, registryVars, requestVars, shutdownVars>>

\* server.ts 98-102: every entry has been required
FinishLoading ==
  /\ pc = "glob"
  /\ Alive
  /\ pc' = "grace"
  /\ UNCHANGED <<preHandlerHook, registryVars, requestVars, shutdownVars>>

\* server.ts 105: closeWithGrace installs its signal and error listeners
InstallCloseWithGrace ==
  /\ pc = "grace"
  /\ Alive
  /\ graceInstalled' = TRUE
  /\ pc' = "listen"
  /\ UNCHANGED <<preHandlerHook, registryVars, requestVars, shutdown, log, dropped>>

\* server.ts 114-120: listen succeeds (the instance is started) or fails
Listen ==
  /\ pc = "listen"
  /\ Alive
  /\ shutdown = "Running"
  /\ ~pendingRejection
  /\ \/ /\ pc' = "serving"
        /\ log' = Append(log, "listening")
     \/ /\ pc' = "listenFailed"
        /\ log' = Append(log, "listen error")
  /\ UNCHANGED <<preHandlerHook, registryVars, requestVars, shutdown,
                 graceInstalled, dropped>>

\* the turn of the loader loop is over and the runtime reports the rejected
\* promise of a registerProxyHandler call (proxy module 15, server.ts 99-101):
\* the entry handles it or the runtime only warns, and startServer goes on; or
\* it is an unhandled rejection, which ends the process at once, or runs the
\* callback of closeWithGrace with err once server.ts 105 has installed it
ProcessPromiseRejections ==
  /\ pendingRejection
  /\ pc \in {"grace", "listen"}
  /\ Alive
  /\ pendingRejection' = FALSE
  /\ \/ UNCHANGED <<pc, shutdown, log>>
     \/ /\ ~graceInstalled
        /\ pc' = "killed"
        /\ UNCHANGED <<shutdown, log>>
     \/ /\ graceInstalled
        /\ shutdown = "Running"
        /\ shutdown' = "Draining"
        /\ log' = Append(log, "shutdown error")
        /\ UNCHANGED pc
  /\ UNCHANGED <<preHandlerHook, fastify, proxyNameList, customizeNameList,
                 functionNameList, routes, regLog, requestVars, graceInstalled,
                 dropped>>

\* -------------------------------------------------------------- registries
\* number of register calls that returned normally so far
Registered == Len(regLog["proxy"]) + Len(regLog["customize"]) + Len(regLog["function"])

\* a transport that still accepts routes once it has started
RouteThrowsNeverStarted(path) ==
  \/ ~IsDefined(fastify)
  \/ ProxyRoute(path) \in routes

\* a transport on which a second declaration of a route replaces the first
RouteThrowsAcceptsDuplicates(path) ==
  \/ ~IsDefined(fastify)
  \/ pc \in {"serving", "listenFailed"}

\* fastify.route of the proxy module's instance: undefined instance (TypeError),
\* instance already started, or route already declared: the call throws
RouteThrows(path) ==
  \/ ~IsDefined(fastify)
  \/ pc \in {"serving", "listenFailed"}
  \/ ProxyRoute(path) \in routes

\* a registerProxyHandler that pushes the name before it binds the route
RegisterProxyHandlerPushFirst(path) ==
  /\ Alive
  /\ Registered < MaxRegistered
  /\ proxyNameList' = IF IsDefined(proxyNameList)
                        THEN Some(Append(proxyNameList[1], path))
                        ELSE proxyNameList
  /\ IF RouteThrows(path)
       THEN /\ pendingRejection' = (pendingRejection \/ pc = "glob")
            /\ UNCHANGED <<routes, regLog>>
       ELSE /\ routes' = routes \cup {ProxyRoute(path)}
            /\ regLog' = [regLog EXCEPT !["proxy"] = Append(@, path)]
            /\ UNCHANGED pendingRejection
  /\ UNCHANGED <<startupVars, fastify, customizeNameList, functionNameList,
                 requestVars, shutdownVars>>

\* a registerProxyHandler that swallows the throw of fastify.route and pushes
RegisterProxyHandlerCatchesThrow(path) ==
  /\ Alive
  /\ Registered < MaxRegistered
  /\ IF RouteThrows(path)
       THEN /\ proxyNameList' = IF IsDefined(proxyNameList)
                                  THEN Some(Append(proxyNameList[1], path))
                                  ELSE proxyNameList
            /\ pendingRejection' = (pendingRejection \/ pc = "glob")
            /\ UNCHANGED <<routes, regLog>>
       ELSE /\ routes' = routes \cup {ProxyRoute(path)}
            /\ proxyNameList' = Some(Append(proxyNameList[1], path))
            /\ regLog' = [regLog EXCEPT !["proxy"] = Append(@, path)]
            /\ UNCHANGED pendingRejection
  /\ UNCHANGED <<startupVars, fastify, customizeNameList, functionNameList,
                 requestVars, shutdownVars>>

\* proxy module 15-32: bind the route, then push the name; the function is
\* async, so a throw of fastify.route rejects the promise it returns, before
\* the push: nothing has changed, and the caller is not interrupted. While the
\* entries are being required (server.ts 99-101) the rejection stays pending
\* until the loop is over
RegisterProxyHandler(path) ==
  /\ Alive
  /\ IF RouteThrows(path)
       THEN /\ pendingRejection' = (pendingRejection \/ pc = "glob")
            /\ UNCHANGED <<routes, proxyNameList, regLog>>
       ELSE /\ Registered < MaxRegistered
            /\ routes' = routes \cup {ProxyRoute(path)}
            /\ proxyNameList' = Some(Append(proxyNameList[1], path))
            /\ regLog' = [regLog EXCEPT !["proxy"] = Append(@, path)]
            /\ UNCHANGED pendingRejection
  /\ UNCHANGED <<startupVars, fastify, customizeNameList, functionNameList,
                 requestVars, shutdownVars>>

\* proxy module 39-41
getproxyNameList == proxyNameList

\* the customize registry's register, called by an entry while it is required
RegisterCustomize(name) ==
  /\ Alive
  /\ pc = "glob"
  /\ Registered < MaxRegistered
  /\ <<"customize", name>> \notin routes
  /\ routes' = routes \cup {<<"customize", name>>}
  /\ customizeNameList' = Some(Append(customizeNameList[1], name))
  /\ regLog' = [regLog EXCEPT !["customize"] = Append(@, name)]
  /\ UNCHANGED <<startupVars, fastify, proxyNameList, functionNameList,
                 pendingRejection, requestVars, shutdownVars>>

getCustomizeNameList == customizeNameList

\* the function registry's register, called by an entry while it is required
RegisterFunction(name) ==
  /\ Alive
  /\ pc = "glob"
  /\ Registered < MaxRegistered
  /\ <<"function", name>> \notin routes
  /\ routes' = routes \cup {<<"function", name>>}
  /\ functionNameList' = Some(Append(functionNameList[1], name))
  /\ regLog' = [regLog EXCEPT !["function"] = Append(@, name)]
  /\ UNCHANGED <<startupVars, fastify, proxyNameList, customizeNameList,
                 pendingRejection, requestVars, shutdownVars>>

getFunctionNameList == functionNameList

\* ---------------------------------------------------------------- requests
\* a genReqId that formats the counter without storing the increment
GenReqIdKeepsCounter(header, counter) ==
  IF Truthy(header)
    THEN [reqId |-> HeaderToString(header[1]), counter |-> counter]
    ELSE [reqId |-> NumberToString(counter + 1), counter |-> counter]

\* a genReqId that never looks at the header
GenReqIdIgnoresHeader(header, counter) ==
  [reqId |-> NumberToString(counter + 1), counter |-> counter + 1]

\* a genReqId that leaves the id unassigned
GenReqIdUnassigned(header, counter) == [reqId |-> <<>>, counter |-> counter]

\* a genReqId that advances the counter for every request
GenReqIdCountsEveryRequest(header, counter) ==
  IF Truthy(header)
    THEN [reqId |-> HeaderToString(header[1]), counter |-> counter + 1]
    ELSE [reqId |-> NumberToString(counter + 1), counter |-> counter + 1]

\* server.ts 25-30: genReqId, from the header and the counter; the id and the
\* counter's new value
GenReqId(header, counter) ==
  IF Truthy(header)
    THEN [reqId |-> HeaderToString(header[1]), counter |-> counter]
    ELSE [reqId |-> NumberToString(counter + 1), counter |-> counter + 1]

\* the routes a request can match: /health and the bound proxy routes
Reachable == {r \in routes : r[1] \in {"health", "proxy"}}

FreeSlots == {s \in Slots : requests[s].stage = "idle"}
InFlight == {s \in Slots : requests[s].stage # "idle"}
\* the requests whose reply has not been produced yet
Pending == {s \in Slots : requests[s].stage \in {"received", "ctxBuilt", "handling"}}

\* the slot the next request takes, and the bodies it can carry: the body of
\* a GET request is not parsed
NextSlot == CHOOSE f \in FreeSlots : \A g \in FreeSlots : f <= g
ArrivalBodies(method) ==
  IF FreeSlots = {} THEN {}
  ELSE IF method = "GET" THEN {NoBody} ELSE BodiesOf(NextSlot)

\* a transport that goes on accepting requests after the termination signal
ArriveWhileDraining(method, header, body, route) ==
  /\ pc = "serving"
  /\ shutdown # "Closed"
  /\ arrivals < MaxArrivals
  /\ arrivals' = arrivals + 1
  /\ FreeSlots # {}
  /\ route \in Reachable
  /\ method \in MethodsOf(route)
  /\ LET s == NextSlot
         g == GenReqId(header, id)
     IN  /\ body \in ArrivalBodies(method)
         /\ requests' = [requests EXCEPT ![s] =
              [Idle EXCEPT !.stage = "received", !.route = route,
                           !.method = method, !.query = Some(QueryOf(s)),
                           !.header = header, !.body = body, !.id = g.reqId]]
         /\ id' = g.counter
         /\ genLog' = IF Truthy(header) THEN genLog ELSE Append(genLog, g.reqId)
  /\ UNCHANGED <<startupVars, registryVars, shutdownVars>>

\* the transport accepts a request: genReqId (server.ts 25-30), onRequest (34-37);
\* the body of a GET request is not parsed, req.body stays undefined
Arrive(method, header, body, route) ==
  /\ pc = "serving"
  /\ shutdown = "Running"
  /\ arrivals < MaxArrivals
  /\ arrivals' = arrivals + 1
  /\ FreeSlots # {}
  /\ route \in Reachable
  /\ method \in MethodsOf(route)
  /\ LET s == NextSlot
         g == GenReqId(header, id)
     IN  /\ body \in ArrivalBodies(method)
         /\ requests' = [requests EXCEPT ![s] =
              [Idle EXCEPT !.stage = "received", !.route = route,
                           !.method = method, !.query = Some(QueryOf(s)),
                           !.header = header, !.body = body, !.id = g.reqId]]
         /\ id' = g.counter
         /\ genLog' = IF Truthy(header) THEN genLog ELSE Append(genLog, g.reqId)
  /\ UNCHANGED <<startupVars, registryVars, shutdownVars>>

\* a hook installed on the root instance, which the health route inherits too
HasPreHandlerOnRoot(route) == preHandlerHook

\* server.ts 50 and 65-66: the hook belongs to the encapsulated plugin, where
\* the category plugins are registered; the health route is outside it
HasPreHandler(route) == preHandlerHook /\ route # HealthRoute

\* a preHandler that also rejects a body without the identity claim
PreHandlerThrowsWithoutUser(body) ==
  \/ ~IsDefined(body)
  \/ ~IsDefined(body[1].wg)
  \/ ~IsDefined(body[1].wg[1].user)

\* server.ts 67: req.body.__wg.clientRequest throws a TypeError when req.body or
\* req.body.__wg is undefined
PreHandlerThrows(body) == ~IsDefined(body) \/ ~IsDefined(body[1].wg)

\* server.ts 67-82: the context built from the envelope
BuildContext(body) ==
  LET wg == body[1].wg[1]
      clientRequest == wg.clientRequest
  IN  [logger |-> "logger",
       user |-> wg.user,
       clientRequest |-> clientRequest,
       operationsClient |-> [baseURL |-> "apiBaseURL", requestTimeoutMs |-> 3000,
                             clientRequest |-> clientRequest]]

\* the reply of a request, whose inputs and context are then discarded
Reply(r, status, payload) ==
  [Idle EXCEPT !.stage = "responded", !.route = r.route, !.status = status,
               !.payload = payload]

\* a preHandler that keeps one context object for all requests and overwrites it
PreHandlerSharedContext(s) ==
  /\ Alive
  /\ requests[s].stage = "received"
  /\ HasPreHandler(requests[s].route)
  /\ IF PreHandlerThrows(requests[s].body)
       THEN requests' = [requests EXCEPT ![s] = Reply(@, 500, Undefined)]
       ELSE requests' =
              [t \in Slots |->
                 IF t = s
                   THEN [requests[s] EXCEPT !.stage = "ctxBuilt",
                           !.ctx = Some(BuildContext(requests[s].body)),
                           !.ctxBuilds = @ + 1]
                 ELSE IF IsDefined(requests[t].ctx)
                   THEN [requests[t] EXCEPT
                           !.ctx = Some(BuildContext(requests[s].body))]
                 ELSE requests[t]]
  /\ UNCHANGED <<startupVars, registryVars, id, arrivals, genLog, shutdownVars>>

\* server.ts 66-83: the preHandler hook of a request; a throw becomes a 500 reply
PreHandler(s) ==
  /\ Alive
  /\ requests[s].stage = "received"
  /\ HasPreHandler(requests[s].route)
  /\ IF PreHandlerThrows(requests[s].body)
       THEN requests' = [requests EXCEPT ![s] = Reply(@, 500, Undefined)]
       ELSE requests' = [requests EXCEPT ![s].stage = "ctxBuilt",
                           ![s].ctx = Some(BuildContext(requests[s].body)),
                           ![s].ctxBuilds = @ + 1]
  /\ UNCHANGED <<startupVars, registryVars, id, arrivals, genLog, shutdownVars>>

\* a dispatch that enters the handler without waiting for the hook
HandlerStageSkipsHook(route) == "received"

\* the stage at which a route's handler is entered: after its preHandler hook
HandlerStage(route) == IF HasPreHandler(route) THEN "ctxBuilt" ELSE "received"

\* proxy module 21-29: the route handler calls config.handler(request, req.ctx, reply)
ProxyHandler(s) ==
  /\ Alive
  /\ requests[s].route # HealthRoute
  /\ requests[s].stage = HandlerStage(requests[s].route)
  /\ requests' = [requests EXCEPT ![s].stage = "handling",
        ![s].handlerArgs = Some([name |-> requests[s].route[2],
                                 request |-> [body |-> requests[s].body,
                                              headers |-> requests[s].header,
                                              method |-> requests[s].method,
                                              query |-> requests[s].query],
                                 ctx |-> requests[s].ctx])]
  /\ UNCHANGED <<startupVars, registryVars, id, arrivals, genLog, shutdownVars>>

\* proxy module 28: config.handler settles, resolved or rejected
HandlerSettles(s) ==
  /\ Alive
  /\ requests[s].stage = "handling"
  /\ \E code \in {200, 500} :
       requests' = [requests EXCEPT ![s] = Reply(@, code, Undefined)]
  /\ UNCHANGED <<startupVars, registryVars, id, arrivals, genLog, shutdownVars>>

\* a health report that reads the proxy list for the customizes too
HealthReportProxyTwice ==
  [status |-> "ok",
   report |-> [customizes |-> getproxyNameList,
               functions |-> getFunctionNameList,
               proxys |-> getproxyNameList,
               time |-> startTime]]

\* a health report that answers "error" while nothing is registered
HealthReportErrorWhenEmpty ==
  [status |-> IF Registered = 0 THEN "error" ELSE "ok",
   report |-> [customizes |-> getCustomizeNameList,
               functions |-> getFunctionNameList,
               proxys |-> getproxyNameList,
               time |-> startTime]]

\* health.ts 11-19
HealthReport ==
  [status |-> "ok",
   report |-> [customizes |-> getCustomizeNameList,
               functions |-> getFunctionNameList,
               proxys |-> getproxyNameList,
               time |-> startTime]]

\* health.ts 10-20: the health route's handler
HealthHandler(s) ==
  /\ Alive
  /\ requests[s].route = HealthRoute
  /\ requests[s].stage = HandlerStage(requests[s].route)
  /\ requests' = [requests EXCEPT ![s] = Reply(@, 200, Some(HealthReport))]
  /\ UNCHANGED <<startupVars, registryVars, id, arrivals, genLog, shutdownVars>>

\* server.ts 39-45: the reply has been sent, onResponse runs, the request is over
Complete(s) ==
  /\ Alive
  /\ requests[s].stage = "responded"
  /\ requests' = [requests EXCEPT ![s] = Idle]
  /\ UNCHANGED <<startupVars, registryVars, id, arrivals, genLog, shutdownVars>>

\* ---------------------------------------------------------------- shutdown
\* a termination signal or an uncaught error (err): with the listeners of
\* server.ts 105 installed the callback of 105-109 runs up to fastify.close();
\* before that the process ends at once
Signal(err) ==
  /\ Alive
  /\ shutdown = "Running"
  /\ IF graceInstalled
       THEN /\ shutdown' = "Draining"
            /\ log' = IF err THEN Append(log, "shutdown error") ELSE log
            /\ UNCHANGED <<pc, requests, dropped>>
       ELSE /\ pc' = "killed"
            /\ UNCHANGED <<shutdown, log, requests, dropped>>
  /\ UNCHANGED <<preHandlerHook, registryVars, id, arrivals, genLog, graceInstalled>>

\* server.ts 109-110: fastify.close() resolves once no request is in flight;
\* the callback logs and the process exits
CloseResolves ==
  /\ shutdown = "Draining"
  /\ InFlight = {}
  /\ log' = Append(log, "closed")
  /\ shutdown' = "Closed"
  /\ UNCHANGED <<startupVars, registryVars, requestVars, graceInstalled, dropped>>

\* server.ts 109: fastify.close() rejects; the callback rejects before 110 and
\* closeWithGrace reports the failure and exits
CloseRejects ==
  /\ shutdown = "Draining"
  /\ InFlight = {}
  /\ log' = Append(log, "close failed")
  /\ shutdown' = "Closed"
  /\ UNCHANGED <<startupVars, registryVars, requestVars, graceInstalled, dropped>>

\* a closeWithGrace without the delay: the exit waits for the callback
GraceDelayWaitsForCallback ==
  /\ shutdown = "Draining"
  /\ InFlight = {}
  /\ shutdown' = "Closed"
  /\ dropped' = Cardinality({s \in Slots : requests[s].stage = "handling"})
  /\ requests' = [s \in Slots |-> IF s \in InFlight THEN Idle ELSE requests[s]]
  /\ UNCHANGED <<startupVars, registryVars, id, arrivals, genLog, graceInstalled,
                 log>>

\* server.ts 105: the delay elapses before the callback has finished; the
\* process exits without running the rest of the callback, and the requests
\* still in flight are gone with it
GraceDelayElapses ==
  /\ shutdown = "Draining"
  /\ shutdown' = "Closed"
  /\ dropped' = Cardinality({s \in Slots : requests[s].stage = "handling"})
  /\ requests' = [s \in Slots |-> IF s \in InFlight THEN Idle ELSE requests[s]]
  /\ UNCHANGED <<startupVars, registryVars, id, arrivals, genLog, graceInstalled,
                 log>>

\* ----------------------------------------------------------- specification
Next ==
  \/ StartServer
  \/ AddPreHandlerHook
  \/ RegisterHooksPlugin
  \/ RegisterCustomizesPlugin
  \/ FireboomProxiesPlugin
  \/ RegisterFunctionsPlugin
  \/ RequireThrows
  \/ FinishLoading
  \/ InstallCloseWithGrace
  \/ Listen
  \/ ProcessPromiseRejections
  \/ \E path \in Names : RegisterProxyHandler(path)
  \/ \E name \in OtherNames : RegisterCustomize(name)
  \/ \E name \in OtherNames : RegisterFunction(name)
  \/ \E route \in Reachable, header \in HeaderOptions :
       \E method \in MethodsOf(route) :
         \E body \in ArrivalBodies(method) : Arrive(method, header, body, route)
  \/ \E s \in Slots : PreHandler(s)
  \/ \E s \in Slots : ProxyHandler(s)
  \/ \E s \in Slots : HandlerSettles(s)
  \/ \E s \in Slots : HealthHandler(s)
  \/ \E s \in Slots : Complete(s)
  \/ \E err \in BOOLEAN : Signal(err)
  \/ CloseResolves
  \/ CloseRejects
  \/ GraceDelayElapses

Spec == Init /\ [][Next]_vars

\* the delay of closeWithGrace (server.ts 105) is a timer: once armed it fires
FairSpec == Spec /\ WF_vars(GraceDelayElapses)

\* ------------------------------------------------------------------ claims
Range(seq) == {seq[i] : i \in 1..Len(seq)}
\* the names whose register call returned normally, per category, in call order
ProxyRegistered(l) == l["proxy"]
CustomizeRegistered(l) == l["customize"]
FunctionRegistered(l) == l["function"]

HealthReplies == {s \in Slots : requests[s].stage = "responded"
                                /\ requests[s].route = HealthRoute
                                /\ IsDefined(requests[s].payload)}
\* the process exited with the request of slot s in flight
DroppedAtExit(s) == requests'[s].stage = "idle" /\ shutdown' = "Closed"

\* C1: once the proxy registry is initialized, getproxyNameList() is exactly the
\* names of the register calls that succeeded, in call order, and so its length
\* is the number of successful calls
C1_ListIsRegistrationOrder ==
  IsDefined(getproxyNameList) =>
    /\ Len(getproxyNameList[1]) = Len(ProxyRegistered(regLog))
    /\ getproxyNameList[1] = ProxyRegistered(regLog)

C1_Witness ==
  /\ IsDefined(getproxyNameList)
  /\ getproxyNameList[1] = <<"users", "orders">>

\* C2: the ids generated for requests without a usable header are the numerals
\* "1", "2", ... in arrival order: strictly increasing, pairwise distinct, never
\* reused, and no two requests still being handled share a generated id
C2_GeneratedIdsIncrease ==
  /\ \A i \in 1..Len(genLog) :
       IsNumeral(genLog[i]) /\ ParseNumeral(genLog[i]) = i
  /\ Len(genLog) >= 1 => genLog[1] = <<"1">>
  /\ Len(genLog) >= 2 => genLog[2] = <<"2">>
  /\ \A i, j \in 1..Len(genLog) :
       i < j => /\ genLog[i] # genLog[j]
                /\ ParseNumeral(genLog[i]) < ParseNumeral(genLog[j])
  /\ \A s, t \in Pending :
       (s # t /\ ~Truthy(requests[s].header) /\ ~Truthy(requests[t].header))
         => requests[s].id # requests[t].id

C2_Witness ==
  /\ {1, 2} \subseteq Pending
  /\ requests[1].header = Undefined /\ requests[1].id = <<"1">>
  /\ requests[2].header = Undefined /\ requests[2].id = <<"2">>

\* C3 as stated: every request that carries the header, whatever its value, has
\* that value as its id
C3_Original ==
  \A s \in Pending :
    IsDefined(requests[s].header) => requests[s].id = requests[s].header[1]

\* C3 amended: every request that carries a non-empty header value has exactly
\* that value as its id, also when a generated id already had the same value;
\* an empty value is treated as no header and gets a generated id
C3_NonEmptyHeaderVerbatim ==
  \A s \in Pending :
    /\ Truthy(requests[s].header) => requests[s].id = requests[s].header[1]
    /\ (IsDefined(requests[s].header) /\ ~Truthy(requests[s].header))
         => requests[s].id \in Range(genLog)

C3_Witness ==
  /\ requests[1].stage = "received" /\ requests[1].header = Undefined
  /\ requests[1].id = <<"1">>
  /\ requests[2].stage = "received" /\ requests[2].header = Some(<<"1">>)
  /\ requests[2].id = <<"1">>

\* C4: a health report produced after a name was registered in the proxy
\* category has the name in its proxys list, and has it in the customizes or
\* functions list only if it was registered in that category too
C4_ProxyNameOnlyInProxys ==
  [][\A s \in Slots :
       (requests[s].stage # "responded" /\ requests'[s].stage = "responded"
        /\ requests[s].route = HealthRoute /\ IsDefined(requests'[s].payload))
       => LET report == requests'[s].payload[1].report
          IN  \A name \in Range(ProxyRegistered(regLog')) :
                /\ name \in Range(report.proxys[1])
                /\ name \in Range(report.customizes[1])
                     => name \in Range(CustomizeRegistered(regLog'))
                /\ name \in Range(report.functions[1])
                     => name \in Range(FunctionRegistered(regLog'))]_vars

C4_Witness ==
  \E s \in HealthReplies :
    LET report == requests[s].payload[1].report
    IN  /\ ProxyRegistered(regLog) = <<"orders">>
        /\ report.proxys = Some(<<"orders">>)
        /\ report.customizes = Some(<<>>)
        /\ report.functions = Some(<<>>)

EnvelopeWithoutUser(s) == BodyWith(Some(ClientRequestOf(s)), Undefined)

\* C6: a request whose envelope carries a caller request and no identity claim
\* leaves the preHandler with a context whose user is unset, and from there
\* enters the handler with that context (unless the process exits first)
C6_MissingUserStillHandled ==
  [][\A s \in Slots :
       LET r == requests[s]
           r2 == requests'[s]
       IN  (r.body = EnvelopeWithoutUser(s) /\ r.stage \in {"received", "ctxBuilt"}
            /\ r2.stage # r.stage)
           => \/ /\ r.stage = "received" /\ r2.stage = "ctxBuilt"
                 /\ IsDefined(r2.ctx)
                 /\ r2.ctx[1].user = Undefined
                 /\ r2.ctx[1].clientRequest = Some(ClientRequestOf(s))
              \/ /\ r.stage = "ctxBuilt" /\ r2.stage = "handling"
                 /\ r2.handlerArgs[1].ctx = r.ctx
                 /\ r2.handlerArgs[1].ctx[1].user = Undefined
              \/ DroppedAtExit(s)]_vars

C6_Witness ==
  \E s \in Slots :
    /\ requests[s].stage = "handling"
    /\ requests[s].body = EnvelopeWithoutUser(s)
    /\ requests[s].handlerArgs[1].ctx[1].user = Undefined

\* C7 as stated, its log part: when the process was closed by the delay while
\* the handler of a request was still running, a log entry records the outcome
C7_Original ==
  (shutdown = "Closed" /\ dropped > 0)
    => \E i \in 1..Len(log) : log[i] \in {"closed", "shutdown error"}

\* C8: a health request never passes through the preHandler, is never
\* suspended and never fails: its one step is the reply, 200, whose lists are
\* the names registered so far in each category, in order
C8_HealthIsLive ==
  /\ [](\A s \in Slots :
          requests[s].route = HealthRoute
            => /\ requests[s].stage \in {"received", "responded"}
               /\ requests[s].stage = "responded" => requests[s].status = 200)
  /\ [][\A s \in Slots :
          (requests[s].route = HealthRoute /\ requests[s].stage = "received"
           /\ requests'[s].stage # "received")
          => \/ /\ requests'[s].stage = "responded"
                /\ requests'[s].status = 200
                /\ LET report == requests'[s].payload[1].report
                   IN  /\ report.proxys = Some(ProxyRegistered(regLog'))
                       /\ report.customizes = Some(CustomizeRegistered(regLog'))
                       /\ report.functions = Some(FunctionRegistered(regLog'))
                       /\ report.proxys = proxyNameList'
             \/ DroppedAtExit(s)]_vars

C8_Witness ==
  \E s \in HealthReplies :
    /\ requests[s].payload[1].report.proxys = Some(<<"users">>)
    /\ requests[s].payload[1].report.customizes = Some(<<"orders">>)
    /\ requests[s].status = 200

\* C9: a request is in its handler only with a context that was built exactly
\* once, before the handler was entered, and the handler was given that very
\* context; no request's context is built twice
C9_ContextOnceBeforeHandler ==
  \A s \in Slots :
    /\ requests[s].ctxBuilds <= 1
    /\ requests[s].stage = "handling"
         => /\ requests[s].ctxBuilds = 1
            /\ IsDefined(requests[s].ctx)
            /\ requests[s].handlerArgs[1].ctx = requests[s].ctx
            /\ requests[s].ctx[1].operationsClient.clientRequest
                 = requests[s].ctx[1].clientRequest

C9_Witness ==
  \E s \in Slots :
    /\ requests[s].stage = "handling"
    /\ requests[s].ctx[1].clientRequest = Some(ClientRequestOf(s))
    /\ requests[s].ctx[1].user = Some(UserOf(s))

\* a body that is missing, has no envelope, or whose envelope has no caller request
Malformed(body) ==
  \/ ~IsDefined(body)
  \/ ~IsDefined(body[1].wg)
  \/ ~IsDefined(body[1].wg[1].clientRequest)

\* C10 as stated: a request to a category handler whose body is malformed
\* leaves the preHandler with a 4xx reply and never enters the handler
C10_Original ==
  [][\A s \in Slots :
       LET r == requests[s]
           r2 == requests'[s]
       IN  (r.stage = "received" /\ r.route # HealthRoute /\ Malformed(r.body)
            /\ r2.stage # "received")
           => \/ r2.stage = "responded" /\ r2.status \in 400..499
              \/ DroppedAtExit(s)]_vars

\* C11 as stated: once an entry has failed while being loaded, here by a
\* self-registration whose route binding threw, no later entry is loaded and
\* startup goes no further than the loader
C11_Original ==
  [][(pc = "glob" /\ pendingRejection)
       => /\ regLog' = regLog
          /\ pc' \in {"glob", "aborted", "killed"}]_vars

\* C12: the transport serves only with every registry initialized, requests
\* are accepted only while it serves, and from the moment it serves no step
\* changes a name list, the bound routes or the record of registrations
C12_RegistriesFrozenWhenListening ==
  /\ [](pc = "serving"
          => /\ IsDefined(fastify) /\ IsDefined(proxyNameList)
             /\ IsDefined(customizeNameList) /\ IsDefined(functionNameList))
  /\ []((arrivals > 0 \/ InFlight # {}) => pc = "serving")
  /\ [][pc = "serving"
         => UNCHANGED <<proxyNameList, customizeNameList, functionNameList,
                        routes, regLog>>]_vars
  /\ [][regLog' # regLog => (arrivals = 0 /\ pc' # "serving")]_vars

C12_Witness ==
  /\ pc = "serving"
  /\ proxyNameList = Some(<<"orders">>)
  /\ customizeNameList = Some(<<"orders">>)
  /\ arrivals = MaxArrivals
  /\ \E s \in Slots : requests[s].stage = "handling"

\* C13: once the shutdown callback runs (Draining) the process always ends
\* (Closed), also when the callback was given an error, which stays in the
\* log, and the coordinator never returns from Draining to Running
C13_DrainingReachesClosed ==
  /\ (shutdown = "Draining") ~> (shutdown = "Closed")
  /\ [][("shutdown error" \in Range(log)) => ("shutdown error" \in Range(log'))]_vars
  /\ [][shutdown = "Draining" => shutdown' \in {"Draining", "Closed"}]_vars

C13_Witness ==
  /\ shutdown = "Closed"
  /\ "shutdown error" \in Range(log)
  /\ "close failed" \in Range(log)

\* the next step of the request in slot s: its hook, its handler, its reply
StepOf(s) ==
  PreHandler(s) \/ ProxyHandler(s) \/ HealthHandler(s) \/ HandlerSettles(s)
    \/ Complete(s)

\* C14: the termination signal leaves the requests in flight as they are; from
\* then on no request is accepted, while each request in flight can take its
\* next step as long as the process is Draining; once Closed no request is in
\* flight and none is dispatched
C14_DrainingAcceptsNothingNew ==
  /\ [](shutdown = "Draining" => \A s \in InFlight : ENABLED StepOf(s))
  /\ [](shutdown = "Closed" => InFlight = {})
  /\ [][(shutdown = "Running" /\ shutdown' = "Draining") => requests' = requests]_vars
  /\ [][shutdown # "Running"
         => /\ arrivals' = arrivals
            /\ \A s \in Slots :
                 requests[s].stage = "idle" => requests'[s].stage = "idle"]_vars
  /\ [][shutdown = "Closed" => UNCHANGED requests]_vars

C14_Witness ==
  /\ shutdown = "Draining"
  /\ requests[1].stage = "handling"
  /\ requests[2].stage = "received"

\* the names of the routes a category has bound, and the names a list holds
BoundNames(kind) == {r[2] : r \in {b \in routes : b[1] = kind}}
ListedNames(list) == IF IsDefined(list) THEN Range(list[1]) ELSE {}
NoDuplicates(list) ==
  IsDefined(list) => \A i, j \in 1..Len(list[1]) : i # j => list[1][i] # list[1][j]

C16_ContextPerRequest ==
  /\ [](\A s \in Slots :
          IsDefined(requests[s].ctx)
            => LET c == requests[s].ctx[1]
               IN  /\ c = BuildContext(requests[s].body)
                   /\ c.clientRequest \in {Undefined, Some(ClientRequestOf(s))}
                   /\ c.user \in {Undefined, Some(UserOf(s))}
                   /\ c.operationsClient.clientRequest = c.clientRequest
                   /\ \A t \in Slots \ {s} :
                        (IsDefined(requests[t].ctx) /\ IsDefined(c.clientRequest))
                          => requests[t].ctx[1].clientRequest # c.clientRequest
                   /\ IsDefined(requests[s].handlerArgs)
                        => requests[s].handlerArgs[1].ctx = requests[s].ctx)
  /\ [][\A s \in Slots :
          (IsDefined(requests[s].ctx) /\ requests'[s].stage \in {"ctxBuilt", "handling"})
            => /\ requests'[s].ctx = requests[s].ctx
               /\ IsDefined(requests[s].handlerArgs)
                    => requests'[s].handlerArgs = requests[s].handlerArgs]_vars

C16_Witness ==
  /\ requests[1].stage = "handling"
  /\ requests[1].handlerArgs[1].ctx[1].clientRequest = Some(ClientRequestOf(1))
  /\ requests[1].handlerArgs[1].ctx[1].user = Some(UserOf(1))
  /\ requests[2].stage = "ctxBuilt"
  /\ requests[2].ctx[1].clientRequest = Some(ClientRequestOf(2))
  /\ requests[2].ctx[1].user = Some(UserOf(2))

\* C17: a request has its id from the moment it is accepted: the step that
\* builds its context and the step that enters its handler find the id
\* assigned and leave it as it is, whatever the other requests have done
C17_IdBeforeContext ==
  /\ [](\A s \in Pending : requests[s].id # <<>>)
  /\ [](\A s \in Slots :
          (IsDefined(requests[s].ctx) \/ IsDefined(requests[s].handlerArgs))
            => requests[s].id # <<>>)
  /\ [][\A s \in Slots :
          (requests'[s].ctxBuilds > requests[s].ctxBuilds
           \/ (~IsDefined(requests[s].handlerArgs)
               /\ IsDefined(requests'[s].handlerArgs)))
            => /\ requests[s].id # <<>>
               /\ requests'[s].id = requests[s].id]_vars

C17_Witness ==
  /\ arrivals = 2
  /\ id = 2
  /\ requests[1].stage = "ctxBuilt"
  /\ requests[1].id = <<"1">>
  /\ requests[2].stage = "responded"
  /\ requests[2].route # HealthRoute
  /\ requests[2].status = 200

\* C18 as stated, for GET: a GET request that matches a bound proxy route
\* leaves the preHandler with its context, on its way to the handler
C18_Original ==
  [][\A s \in Slots :
       LET r == requests[s]
           r2 == requests'[s]
       IN  (r.stage = "received" /\ r.route \in routes /\ r.route # HealthRoute
            /\ r.method = "GET" /\ r2.stage # "received")
           => \/ r2.stage = "ctxBuilt"
              \/ DroppedAtExit(s)]_vars

\* the request accepted by a step into slot s
Accepted(s) == requests[s].stage = "idle" /\ requests'[s].stage = "received"

\* C19 as stated: a request that carries the header, whatever its value, leaves
\* the counter unchanged
C19_Original ==
  [][\A s \in Slots :
       (Accepted(s) /\ IsDefined(requests'[s].header)) => id' = id]_vars

\* C19 amended: a request with a non-empty header value leaves the counter and
\* the generated ids unchanged; any other request, the k-th of them, advances
\* the counter from k - 1 to k and has the numeral of k as its id; and no other
\* step changes the counter
C19_CounterAdvancesOnGeneratedIds ==
  /\ [](id = Len(genLog))
  /\ [][\A s \in Slots :
          Accepted(s)
            => IF Truthy(requests'[s].header)
                 THEN /\ id' = id
                      /\ genLog' = genLog
                      /\ requests'[s].id = requests'[s].header[1]
                 ELSE /\ id' = id + 1
                      /\ Len(genLog') = Len(genLog) + 1
                      /\ requests'[s].id = NumberToString(Len(genLog) + 1)
                      /\ ParseNumeral(requests'[s].id) = Len(genLog')]_vars
  /\ [][id' # id => \E s \in Slots : Accepted(s)]_vars

C19_Witness ==
  /\ requests[1].stage = "received"
  /\ requests[1].header = Some(<<"1">>)
  /\ requests[2].stage = "received"
  /\ requests[2].header = Undefined
  /\ requests[2].id = <<"1">>
  /\ id = 1

\* C20: a registerProxyHandler call whose route binding fails leaves the name
\* list, the routes and the record of registrations as they were; the list
\* changes only by its initialization or in a step that binds the route of
\* the name it appends; and while the registry is not initialized there is no
\* list
C20_FailedRegistrationKeepsList ==
  /\ [](~IsDefined(fastify) => ~IsDefined(proxyNameList))
  /\ [][(~pendingRejection /\ pendingRejection')
         => UNCHANGED <<proxyNameList, routes, regLog>>]_vars
  /\ [][proxyNameList' # proxyNameList
         => \/ ~IsDefined(proxyNameList) /\ proxyNameList' = Some(<<>>)
            \/ \E path \in Names :
                 /\ ~RouteThrows(path)
                 /\ proxyNameList' = Some(Append(proxyNameList[1], path))
                 /\ ProxyRoute(path) \in routes' \ routes]_vars

C20_Witness ==
  /\ pendingRejection
  /\ pc = "glob"
  /\ proxyNameList = Some(<<"users", "orders">>)
  /\ Cardinality(routes) = 3

====
